---------------------------- MODULE Spec2Model ----------------------------
(***************************************************************************)
(* A model of the three Ansible modules of tsimouha/mft:                   *)
(*   plugins/modules/sftp_get.py    batch download by glob pattern         *)
(*   plugins/modules/sftp_fetch.py  download of one named remote file      *)
(*   plugins/modules/sftp_find.py   listing of the matching remote files   *)
(* The remote directory, the local directory and the pysftp session are    *)
(* state; one action models one handler step of a module run.              *)
(***************************************************************************)
EXTENDS Integers, Sequences, FiniteSets, TLC

(***************************************************************************)
(* Bounds of the model.                                                    *)
(***************************************************************************)
MaxSec == 1          \* remote modification times are 1..MaxSec seconds
MaxRuns == 2         \* consecutive invocations of the module

(***************************************************************************)
(* File names and glob patterns are sequences of characters.               *)
(* <<"a","c">> stands for a.csv, <<"b","t">> for b.txt; <<"*","c">>       *)
(* stands for *.csv.                                                       *)
(***************************************************************************)
Names == {<<"a", "c">>, <<"b", "t">>}
Patterns == {<<"*">>, <<"*", "c">>, <<"b", "?">>}

Secs == 1..MaxSec
\* a local mtime is a float: whole seconds, and whether it has a non-zero
\* sub-second part
LocalMtimes == [sec : 0..MaxSec, frac : BOOLEAN]
Epoch == [sec |-> 0, frac |-> FALSE]

RemoteBytes == "remote"     \* the content of a remote file
OldBytes == "old"           \* the content of a local file that was there
PartialBytes == "partial"   \* a truncated or partly written local file

Range(s) == {s[i] : i \in 1..Len(s)}

\* fnmatch.fnmatch(name, pat) on POSIX: * any run, ? one character,
\* anything else itself (case-sensitive)
RECURSIVE Fnmatch(_, _)
Fnmatch(name, pat) ==
    IF pat = <<>> THEN name = <<>>
    ELSE IF Head(pat) = "*"
         THEN Fnmatch(name, Tail(pat))
              \/ (name # <<>> /\ Fnmatch(Tail(name), pat))
         ELSE /\ name # <<>>
              /\ (Head(pat) = "?" \/ Head(pat) = Head(name))
              /\ Fnmatch(Tail(name), Tail(pat))

VARIABLES
    params,        \* module.params: module, pattern, src, delete, archive
    check_mode,    \* module.check_mode of the current run
    remotePath,    \* what params.path is on the server: dir, file, missing
    remote,        \* the remote directory: entries in listing order
    archive,       \* the remote Archive sibling directory
    localPath,     \* what params.local_path is: dir, file, missing, unreadable
    local,         \* the local directory: name -> file
    session,       \* the pysftp.Connection: none, open, closed
    opened,        \* sessions opened in this run
    pc,            \* position of the run
    directory_structure,   \* sftp.listdir_attr() of this run
    idx,           \* position of the for loop in directory_structure
    changed,       \* the local variable changed
    files_proc,    \* files_proc (sftp_get), files_found (sftp_find)
    files_skipped, \* files_skipped (sftp_get), skipped (sftp_fetch)
    result,        \* the result dict handed to exit_json
    ops,           \* remote operations issued in this run, in order
    run,           \* number of the current invocation
    prev,          \* outcome of the previous invocation
    start          \* local and remote state when this run started

vars == <<params, check_mode, remotePath, remote, archive, localPath, local,
          session, opened, pc, directory_structure, idx, changed, files_proc,
          files_skipped, result, ops, run, prev, start>>

NoFile == [kind |-> "none", mtime |-> Epoch, bytes |-> ""]

\* remote entries with distinct names, as listdir_attr yields them
RemoteEntries == [filename : Names, isdir : BOOLEAN, mtime : Secs]

Listings ==
    {l \in UNION {[1..n -> RemoteEntries] : n \in 0..Cardinality(Names)} :
        \A i, j \in 1..Len(l) : i # j => l[i].filename # l[j].filename}

LocalFiles == [kind : {"file"}, mtime : LocalMtimes, bytes : {OldBytes}]
                 \cup {[kind |-> "dir", mtime |-> Epoch, bytes |-> ""]}

LocalDirs == [Names -> LocalFiles \cup {NoFile}]

EmptyLocal == [n \in Names |-> NoFile]

Terminal == {"done", "failed", "crashed"}

(***************************************************************************)
(* The remote side as pysftp shows it.                                     *)
(***************************************************************************)
RemoteHas(name) == \E i \in 1..Len(remote) : remote[i].filename = name

RemoteEntry(name) == CHOOSE e \in Range(remote) : e.filename = name

\* the remote directory once name is gone (sftp.remove, sftp.rename)
RemoveEntry(name) == SelectSeq(remote, LAMBDA e : e.filename # name)

\* os.path.isfile(local_file)
IsFile(name) == local[name].kind = "file"

\* sftp.stat(f).st_mtime == os.stat(local_file).st_mtime: paramiko's
\* st_mtime is an int of seconds, os.stat's is a float
MtimeEqual(st_mtime, local_mtime) ==
    local_mtime = [sec |-> st_mtime, frac |-> FALSE]

\* the skip condition of both modules
UpToDate(name) ==
    /\ IsFile(name)
    /\ MtimeEqual(RemoteEntry(name).mtime, local[name].mtime)

Op(op, file, ok, live) == [op |-> op, file |-> file, ok |-> ok, live |-> live]

(***************************************************************************)
(* sftp.get(remote, local_file, preserve_mtime=True).  It stats the remote *)
(* file, opens the local file for writing, copies the bytes and stamps the *)
(* local file with the remote st_mtime.  On a closed Connection it raises  *)
(* before anything else; a remote directory cannot be read, a local        *)
(* directory cannot be opened for writing; any copy may fail on I/O.       *)
(***************************************************************************)
GetOutcomes(sess, name) ==
    IF sess # "open" THEN {"closed"}
    ELSE IF ~RemoteHas(name) THEN {"fail_clean"}
    ELSE IF local[name].kind = "dir" THEN {"fail_clean"}
    ELSE IF RemoteEntry(name).isdir THEN {"fail_partial"}
    ELSE {"ok", "fail_clean", "fail_partial"}

\* sftp.get without preserve_mtime: the local file is not stamped with the
\* remote modification time
LocalAfterGetUnstamped(out, name, now) ==
    CASE out = "ok" ->
           [local EXCEPT ![name] =
               [kind |-> "file", mtime |-> now, bytes |-> RemoteBytes]]
      [] out = "fail_partial" ->
           [local EXCEPT ![name] =
               [kind |-> "file", mtime |-> now, bytes |-> PartialBytes]]
      [] OTHER -> local


\* the bytes are copied but the local file keeps the mtime it had (Epoch
\* when it is new)
LocalAfterGetKeepMtime(out, name, now) ==
    CASE out = "ok" ->
           [local EXCEPT ![name] =
               [kind |-> "file", mtime |-> local[name].mtime,
                bytes |-> RemoteBytes]]
      [] out = "fail_partial" ->
           [local EXCEPT ![name] =
               [kind |-> "file", mtime |-> now, bytes |-> PartialBytes]]
      [] OTHER -> local


LocalAfterGet(out, name, now) ==
    CASE out = "ok" ->
           [local EXCEPT ![name] =
               [kind |-> "file",
                mtime |-> [sec |-> RemoteEntry(name).mtime, frac |-> FALSE],
                bytes |-> RemoteBytes]]
      [] out = "fail_partial" ->
           [local EXCEPT ![name] =
               [kind |-> "file", mtime |-> now, bytes |-> PartialBytes]]
      [] OTHER -> local

Snapshot == [local |-> local, remote |-> remote, archive |-> archive]

NoArchive == [exists |-> FALSE, files |-> {}]

(***************************************************************************)
(* Initial states: a configuration, a remote directory and a local         *)
(* directory, before the first invocation.                                 *)
(***************************************************************************)
GetParams ==
    [module : {"sftp_get"}, pattern : Patterns, src : {<<>>},
     delete : BOOLEAN, archive : {FALSE}]

FetchParams ==
    [module : {"sftp_fetch"}, pattern : {<<>>}, src : Names,
     delete : {FALSE}, archive : BOOLEAN]

FindParams ==
    [module : {"sftp_find"}, pattern : Patterns, src : {<<>>},
     delete : {FALSE}, archive : {FALSE}]

\* result = dict(changed=False, remote_files=list(), processed_count='',
\* skipped='') of sftp_get; files_found='' of sftp_find
InitResult(module) ==
    CASE module = "sftp_get" ->
           [changed |-> FALSE, remote_files |-> <<>>,
            processed_count |-> "", skipped |-> ""]
      [] module = "sftp_find" -> [changed |-> FALSE, files_found |-> ""]
      [] OTHER -> [changed |-> FALSE]

Init ==
    /\ params \in GetParams \cup FetchParams \cup FindParams
    /\ check_mode \in BOOLEAN
    /\ remotePath \in IF params.module = "sftp_fetch" THEN {"dir"}
                      ELSE {"dir", "file", "missing"}
    /\ remote \in IF remotePath # "dir" THEN {<<>>}
                  ELSE IF params.module = "sftp_fetch"
                  THEN {l \in Listings :
                           \A i \in 1..Len(l) : l[i].filename = params.src}
                  ELSE Listings
    /\ archive \in IF params.module = "sftp_fetch"
                   THEN {NoArchive, [exists |-> TRUE, files |-> {}],
                         [exists |-> TRUE, files |-> {params.src}]}
                   ELSE {NoArchive}
    /\ localPath \in IF params.module = "sftp_find" THEN {"dir"}
                     ELSE {"dir", "file", "missing", "unreadable"}
    /\ local \in IF localPath # "dir" \/ params.module = "sftp_find"
                 THEN {EmptyLocal}
                 ELSE IF params.module = "sftp_fetch"
                 THEN {f \in LocalDirs :
                          \A n \in Names \ {params.src} : f[n] = NoFile}
                 ELSE LocalDirs
    /\ session = "none"
    /\ opened = 0
    /\ pc = "start"
    /\ directory_structure = <<>>
    /\ idx = 1
    /\ changed = FALSE
    /\ files_proc = <<>>
    /\ files_skipped = <<>>
    /\ result = InitResult(params.module)
    /\ ops = <<>>
    /\ run = 1
    /\ prev = [pc |-> "none"]
    /\ start = Snapshot

\* the state of the filesystems and of the configuration
UNCHANGED_env == UNCHANGED <<params, check_mode, remotePath, archive, localPath,
                             run, prev, start>>

\* the Connection is not used as a context manager: nothing closes it
ExitWithoutClose == "open"

\* leaving the block of: with pysftp.Connection(...) as sftp, at its end,
\* by fail_json or by an exception: Connection.__exit__ closes the session
ExitWith == "closed"

\* check_local_path(module): fail_json unless local_path is a readable
\* directory
CheckLocalPathOk == localPath = "dir"

\* check mode is ignored
CheckModeIgnored == FALSE

(***************************************************************************)
(* sftp_get                                                                *)
(***************************************************************************)
\* if module.check_mode: module.exit_json(**result)
CheckModeExit == check_mode

\* no pattern filter: every entry of the listing is a candidate
CandidateAny(file) == TRUE

\* if fnmatch.fnmatch(file.filename, module.params['pattern'])
Candidate(file) == Fnmatch(file.filename, params.pattern)

\* the remote file is removed whether or not sftp.get succeeded
DeleteDueAlways(out) == params.delete

\* if module.params['delete']: sftp.remove(file.filename), reached only
\* when sftp.get before it did not raise
DeleteDue(out) == out = "ok" /\ params.delete

\* changed reported as soon as a file matched, transferred or not
GetResultAnyMatch(ch, rfiles, proc, skip) ==
    [changed |-> rfiles # <<>>,
     remote_files |-> rfiles,
     processed_count |-> Len(proc),
     processed |-> proc,
     skipped |-> skip]

\* processed_count counts every file that matched, skipped ones too
GetResultCountMatched(ch, rfiles, proc, skip) ==
    [changed |-> ch,
     remote_files |-> rfiles,
     processed_count |-> Len(rfiles),
     processed |-> proc,
     skipped |-> skip]

\* changed is set for every run that got to the end of the loop
GetResultAlwaysChanged(ch, rfiles, proc, skip) ==
    [changed |-> TRUE,
     remote_files |-> rfiles,
     processed_count |-> Len(proc),
     processed |-> proc,
     skipped |-> skip]

\* the result dict filled in at the end of sftp_get_files
GetResult(ch, rfiles, proc, skip) ==
    [changed |-> ch,
     remote_files |-> rfiles,
     processed_count |-> Len(proc),
     processed |-> proc,
     skipped |-> skip]

\* run_module up to sftp_get_files: check mode exits with the initial
\* result; otherwise check_local_path
GetStart ==
    /\ params.module = "sftp_get"
    /\ pc = "start"
    /\ pc' = IF CheckModeExit THEN "done"
             ELSE IF CheckLocalPathOk THEN "connect" ELSE "failed"
    /\ UNCHANGED <<remote, local, session, opened, directory_structure, idx,
                   changed, files_proc, files_skipped, result, ops>>
    /\ UNCHANGED_env

\* with pysftp.Connection(...) as sftp: sftp.cwd(path);
\* directory_structure = sftp.listdir_attr()
GetConnect ==
    /\ params.module = "sftp_get"
    /\ pc = "connect"
    /\ \E connected \in BOOLEAN :
         IF ~connected
         THEN /\ pc' = "crashed"
              /\ UNCHANGED <<session, opened, directory_structure, ops>>
         ELSE /\ opened' = opened + 1
              /\ IF remotePath = "dir"
                 THEN /\ session' = "open"
                      /\ directory_structure' = remote
                      /\ ops' = ops \o <<Op("cwd", <<>>, TRUE, TRUE),
                                         Op("listdir", <<>>, TRUE, TRUE)>>
                      /\ pc' = "loop"
                 ELSE /\ session' = ExitWith
                      /\ ops' = Append(ops, Op("cwd", <<>>, FALSE, TRUE))
                      /\ pc' = "crashed"
                      /\ UNCHANGED directory_structure
    /\ UNCHANGED <<remote, local, idx, changed, files_proc, files_skipped,
                   result>>
    /\ UNCHANGED_env

\* one iteration of: for file in directory_structure
GetLoop ==
    /\ params.module = "sftp_get"
    /\ pc = "loop"
    /\ idx <= Len(directory_structure)
    /\ LET file == directory_structure[idx]
           name == file.filename
       IN
       IF ~Candidate(file)
       THEN /\ idx' = idx + 1
            /\ UNCHANGED <<remote, local, session, pc, changed, files_proc,
                           files_skipped, result, ops>>
       ELSE IF UpToDate(name)
       THEN /\ result' = [result EXCEPT
                             !.remote_files = Append(@, name)]
            /\ files_skipped' = Append(files_skipped, name)
            /\ ops' = Append(ops, Op("stat", name, TRUE, TRUE))
            /\ idx' = idx + 1
            /\ UNCHANGED <<remote, local, session, pc, changed, files_proc>>
       ELSE \E out \in GetOutcomes(session, name), now \in LocalMtimes,
               removed \in BOOLEAN :
            LET statOps == IF IsFile(name)
                           THEN <<Op("stat", name, TRUE, TRUE)>> ELSE <<>>
                getOp == Op("get", name, out = "ok", TRUE)
                rmOps == IF DeleteDue(out)
                         THEN <<Op("remove", name, removed, TRUE)>> ELSE <<>>
            IN
            /\ (out # "fail_partial") => (now = Epoch)
            /\ ~DeleteDue(out) => removed
            /\ result' = [result EXCEPT
                             !.remote_files = Append(@, name)]
            /\ local' = LocalAfterGet(out, name, now)
            /\ ops' = ops \o statOps \o <<getOp>> \o rmOps
            /\ remote' = IF DeleteDue(out) /\ removed
                          THEN RemoveEntry(name) ELSE remote
            /\ IF out = "ok" /\ removed
               THEN /\ files_proc' = Append(files_proc, name)
                    /\ changed' = TRUE
                    /\ idx' = idx + 1
                    /\ UNCHANGED <<session, pc>>
               ELSE /\ files_proc' = IF out = "ok"
                                      THEN Append(files_proc, name)
                                      ELSE files_proc
                    /\ session' = ExitWith
                    /\ pc' = "crashed"
                    /\ UNCHANGED <<idx, changed>>
            /\ UNCHANGED files_skipped
    /\ UNCHANGED directory_structure
    /\ UNCHANGED opened
    /\ UNCHANGED_env

\* the end of the with block and of sftp_get_files, then exit_json
GetFinish ==
    /\ params.module = "sftp_get"
    /\ pc = "loop"
    /\ idx > Len(directory_structure)
    /\ session' = ExitWith
    /\ result' = GetResult(changed, result.remote_files, files_proc,
                            files_skipped)
    /\ pc' = "done"
    /\ UNCHANGED <<remote, local, opened, directory_structure, idx, changed,
                   files_proc, files_skipped, ops>>
    /\ UNCHANGED_env

(***************************************************************************)
(* sftp_fetch                                                              *)
(***************************************************************************)
\* if changed and not module.check_mode
TransferDue == changed /\ ~check_mode

\* if archive: ... sftp.rename, reached only when sftp.get did not raise
ArchiveDue(out) == out = "ok" /\ params.archive

\* module.exit_json(src=src, local_file=local_file, skipped=skipped,
\* changed=changed)
FetchResult(ch, skip) == [changed |-> ch, skipped |-> skip]

\* main up to the with block: check_local_path, also in check mode
FetchStart ==
    /\ params.module = "sftp_fetch"
    /\ pc = "start"
    /\ pc' = IF CheckLocalPathOk THEN "connect" ELSE "failed"
    /\ UNCHANGED <<remote, local, session, opened, directory_structure, idx,
                   changed, files_proc, files_skipped, result, ops>>
    /\ UNCHANGED_env

\* the with block: the Connection is opened, the decision is taken, and the
\* Connection is closed when the block is left
FetchDecide ==
    /\ params.module = "sftp_fetch"
    /\ pc = "connect"
    /\ \E connected \in BOOLEAN :
         IF ~connected
         THEN /\ pc' = "crashed"
              /\ UNCHANGED <<session, opened, changed, files_skipped, ops>>
         ELSE /\ opened' = opened + 1
              /\ session' = ExitWith
              /\ IF ~IsFile(params.src)
                 THEN /\ changed' = TRUE
                      /\ pc' = "post"
                      /\ UNCHANGED <<files_skipped, ops>>
                 ELSE /\ ops' = Append(ops, Op("stat", params.src,
                                               RemoteHas(params.src), TRUE))
                      /\ IF ~RemoteHas(params.src)
                         THEN /\ pc' = "crashed"
                              /\ UNCHANGED <<changed, files_skipped>>
                         ELSE /\ pc' = "post"
                              /\ IF UpToDate(params.src)
                                 THEN /\ files_skipped' =
                                            Append(files_skipped, params.src)
                                      /\ UNCHANGED changed
                                 ELSE /\ changed' = TRUE
                                      /\ UNCHANGED files_skipped
    /\ UNCHANGED <<remote, local, directory_structure, idx, files_proc,
                   result>>
    /\ UNCHANGED_env

\* sftp.rename(src, a_path + "/Archive/" + a_filename): fails without the
\* Archive directory, on a name already there, or on any I/O error
RenameOutcomes(name) ==
    IF archive.exists /\ name \notin archive.files THEN {TRUE, FALSE}
    ELSE {FALSE}

\* after the with block: if changed and not module.check_mode: sftp.get,
\* then the archive rename under try/except IOError; then exit_json
FetchPost ==
    /\ params.module = "sftp_fetch"
    /\ pc = "post"
    /\ IF ~TransferDue
       THEN /\ result' = FetchResult(changed, files_skipped)
            /\ pc' = "done"
            /\ UNCHANGED <<remote, archive, local, ops>>
       ELSE \E out \in GetOutcomes(session, params.src), now \in LocalMtimes,
               renamed \in RenameOutcomes(params.src) :
            LET getOp == Op("get", params.src, out = "ok", session = "open")
                mvOps == IF ArchiveDue(out)
                         THEN <<Op("rename", params.src, renamed,
                                   session = "open")>>
                         ELSE <<>>
            IN
            /\ (out # "fail_partial") => (now = Epoch)
            /\ ~ArchiveDue(out) => ~renamed
            /\ local' = LocalAfterGet(out, params.src, now)
            /\ ops' = ops \o <<getOp>> \o mvOps
            /\ remote' = IF renamed THEN RemoveEntry(params.src) ELSE remote
            /\ archive' = IF renamed
                           THEN [archive EXCEPT
                                    !.files = @ \cup {params.src}]
                           ELSE archive
            /\ IF out = "ok"
               THEN /\ result' = FetchResult(changed, files_skipped)
                    /\ pc' = "done"
               ELSE /\ pc' = "crashed"
                    /\ UNCHANGED result
    /\ UNCHANGED <<session, opened, directory_structure, idx, changed,
                   files_proc, files_skipped>>
    /\ UNCHANGED <<params, check_mode, remotePath, localPath, run, prev,
                   start>>

\* no pattern filter: every entry of the listing is found
FindMatchAny(file) == TRUE

\* if fnmatch.fnmatch(file.filename, pattern)
FindMatch(file) == Fnmatch(file.filename, params.pattern)

(***************************************************************************)
(* sftp_find                                                               *)
(***************************************************************************)
\* run_module: check mode exits with the initial result
FindStart ==
    /\ params.module = "sftp_find"
    /\ pc = "start"
    /\ pc' = IF check_mode THEN "done" ELSE "connect"
    /\ UNCHANGED <<remote, local, session, opened, directory_structure, idx,
                   changed, files_proc, files_skipped, result, ops>>
    /\ UNCHANGED_env

\* with pysftp.Connection(...) as sftp: exists, isfile (fail_json leaves
\* the with block), cwd, listdir_attr
FindConnect ==
    /\ params.module = "sftp_find"
    /\ pc = "connect"
    /\ \E connected \in BOOLEAN :
         IF ~connected
         THEN /\ pc' = "crashed"
              /\ UNCHANGED <<session, opened, directory_structure, ops>>
         ELSE /\ opened' = opened + 1
              /\ CASE remotePath = "missing" ->
                        /\ session' = ExitWith
                        /\ ops' = Append(ops, Op("exists", <<>>, TRUE, TRUE))
                        /\ pc' = "failed"
                        /\ UNCHANGED directory_structure
                   [] remotePath = "file" ->
                        /\ session' = ExitWith
                        /\ ops' = ops \o <<Op("exists", <<>>, TRUE, TRUE),
                                           Op("isfile", <<>>, TRUE, TRUE)>>
                        /\ pc' = "failed"
                        /\ UNCHANGED directory_structure
                   [] OTHER ->
                        /\ session' = "open"
                        /\ directory_structure' = remote
                        /\ ops' = ops \o <<Op("exists", <<>>, TRUE, TRUE),
                                           Op("isfile", <<>>, TRUE, TRUE),
                                           Op("cwd", <<>>, TRUE, TRUE),
                                           Op("listdir", <<>>, TRUE, TRUE)>>
                        /\ pc' = "loop"
    /\ UNCHANGED <<remote, local, idx, changed, files_proc, files_skipped,
                   result>>
    /\ UNCHANGED_env

\* one iteration of: for file in directory_structure
FindLoop ==
    /\ params.module = "sftp_find"
    /\ pc = "loop"
    /\ idx <= Len(directory_structure)
    /\ idx' = idx + 1
    /\ IF FindMatch(directory_structure[idx])
       THEN /\ files_proc' =
                 Append(files_proc, directory_structure[idx].filename)
            /\ changed' = TRUE
       ELSE UNCHANGED <<files_proc, changed>>
    /\ UNCHANGED <<remote, local, session, opened, pc, directory_structure,
                   files_skipped, result, ops>>
    /\ UNCHANGED_env

\* the end of the with block and of sftp_find_files, then exit_json
FindFinish ==
    /\ params.module = "sftp_find"
    /\ pc = "loop"
    /\ idx > Len(directory_structure)
    /\ session' = ExitWith
    /\ result' = [changed |-> changed, files_found |-> files_proc]
    /\ pc' = "done"
    /\ UNCHANGED <<remote, local, opened, directory_structure, idx, changed,
                   files_proc, files_skipped, ops>>
    /\ UNCHANGED_env

(***************************************************************************)
(* The caller invokes the module again with the same parameters, in check  *)
(* mode or not, once a run has ended.                                      *)
(***************************************************************************)
NextRun ==
    /\ pc \in Terminal
    /\ run < MaxRuns
    /\ run' = run + 1
    /\ prev' = [pc |-> pc, result |-> result, check_mode |-> check_mode,
                ops |-> ops, start |-> start]
    /\ check_mode' \in BOOLEAN
    /\ start' = Snapshot
    /\ pc' = "start"
    /\ session' = "none"
    /\ opened' = 0
    /\ directory_structure' = <<>>
    /\ idx' = 1
    /\ changed' = FALSE
    /\ files_proc' = <<>>
    /\ files_skipped' = <<>>
    /\ result' = InitResult(params.module)
    /\ ops' = <<>>
    /\ UNCHANGED <<params, remotePath, remote, archive, localPath, local>>

Next ==
    \/ GetStart
    \/ GetConnect
    \/ GetLoop
    \/ GetFinish
    \/ FetchStart
    \/ FetchDecide
    \/ FetchPost
    \/ FindStart
    \/ FindConnect
    \/ FindLoop
    \/ FindFinish
    \/ NextRun

Spec == Init /\ [][Next]_vars

(***************************************************************************)
(* Vocabulary of the properties.                                           *)
(***************************************************************************)
StartRemoteHas(name) ==
    \E i \in 1..Len(start.remote) : start.remote[i].filename = name

StartRemoteEntry(name) ==
    CHOOSE e \in Range(start.remote) : e.filename = name

\* a regular local file with exactly the remote mtime was there when the
\* run started
StartSameMtime(name, st_mtime) ==
    /\ start.local[name].kind = "file"
    /\ start.local[name].mtime = [sec |-> st_mtime, frac |-> FALSE]

\* a regular local file whose mtime lies in the same whole second as the
\* remote mtime was there when the run started
StartSameSecond(name, st_mtime) ==
    /\ start.local[name].kind = "file"
    /\ start.local[name].mtime.sec = st_mtime

\* the names a result reports as transferred and as skipped ('' and a
\* missing key report none)
Processed(r) == IF "processed" \in DOMAIN r THEN Range(r.processed) ELSE {}

Skipped(r) ==
    IF "processed" \in DOMAIN r THEN Range(r.skipped)
    ELSE IF "processed_count" \in DOMAIN r THEN {}
    ELSE IF "skipped" \in DOMAIN r THEN Range(r.skipped)
    ELSE {}

\* the entries of this run's listing the loop has dealt with
Visited == {i \in 1..Len(directory_structure) : i < idx}

IsGet == params.module = "sftp_get"
IsFetch == params.module = "sftp_fetch"
IsFind == params.module = "sftp_find"

\* a completed run of sftp_get without delete, not in check mode, that
\* follows a completed run of the same kind
C1_Rerun ==
    /\ IsGet
    /\ ~params.delete
    /\ prev.pc = "done"
    /\ ~prev.check_mode
    /\ ~check_mode
    /\ pc = "done"

(***************************************************************************)
(* C1: idempotence of sftp_get without delete.  When a run that is not in  *)
(* check mode has completed normally and the next run, with the same       *)
(* parameters and on unchanged directories, completes too, the second run  *)
(* reports changed = false, an empty processed list, and every remote      *)
(* entry that matches the pattern in skipped.                              *)
(***************************************************************************)
C1_Idempotence ==
    C1_Rerun =>
        /\ result.changed = FALSE
        /\ result.processed = <<>>
        /\ \A i \in 1..Len(remote) :
              Fnmatch(remote[i].filename, params.pattern)
                 => remote[i].filename \in Range(result.skipped)

\* a rerun after a run that transferred a file
C1_Witness ==
    /\ C1_Rerun
    /\ prev.result.processed # <<>>
    /\ result.skipped # <<>>

(***************************************************************************)
(* C2: mtime-equality law at whole-second granularity.  In sftp_get every  *)
(* candidate the loop has dealt with is in skipped if and only if a        *)
(* regular local file was there whose mtime lies in the same whole second  *)
(* as the remote mtime; in sftp_fetch the file is skipped if and only if   *)
(* that holds of src, and is to be transferred otherwise.                  *)
(***************************************************************************)
C2_MtimeLaw ==
    /\ (IsGet /\ pc \in {"loop", "done"}) =>
          \A i \in Visited :
             LET file == directory_structure[i] IN
             Candidate(file) =>
                (file.filename \in Range(files_skipped)
                   <=> StartSameSecond(file.filename, file.mtime))
    /\ (IsFetch /\ pc \in {"post", "done"}) =>
          LET skip == /\ StartRemoteHas(params.src)
                      /\ StartSameSecond(params.src,
                                         StartRemoteEntry(params.src).mtime)
          IN /\ (files_skipped = <<params.src>>) <=> skip
             /\ changed <=> ~skip

(***************************************************************************)
(* C3: in every run of sftp_get or sftp_fetch that returns a result, the   *)
(* reported changed flag is true if and only if the run classified at      *)
(* least one of its candidates Transfer, i.e. found no regular local file  *)
(* with the remote mtime for it.  A check-mode run of sftp_get takes no    *)
(* listing and has no candidates.                                          *)
(***************************************************************************)
C3_ChangedIffTransfer ==
    pc = "done" =>
       /\ IsGet =>
             (result.changed <=>
                 \E i \in 1..Len(directory_structure) :
                    LET file == directory_structure[i] IN
                    /\ Fnmatch(file.filename, params.pattern)
                    /\ ~StartSameMtime(file.filename, file.mtime))
       /\ IsFetch =>
             (result.changed <=>
                 ~(/\ StartRemoteHas(params.src)
                   /\ StartSameMtime(params.src,
                                     StartRemoteEntry(params.src).mtime)))

\* a run of sftp_get that transferred one file and skipped another
C3_Witness ==
    /\ IsGet
    /\ pc = "done"
    /\ result.changed
    /\ Skipped(result) # {}
    /\ Processed(result) # {}

(***************************************************************************)
(* C4: post-action ordering.  A remote remove or rename of a file is       *)
(* issued only after the get of that file has succeeded in this run, and   *)
(* only for a file the run did not skip: no local file with the remote     *)
(* mtime was there for it at the start.                                    *)
(***************************************************************************)
C4_PostActionAfterTransfer ==
    \A i \in 1..Len(ops) :
       ops[i].op \in {"remove", "rename"} =>
          /\ \E j \in 1..(i - 1) :
                /\ ops[j].op = "get"
                /\ ops[j].file = ops[i].file
                /\ ops[j].ok
          /\ ops[i].file \notin Range(files_skipped)
          /\ StartRemoteHas(ops[i].file)
          /\ ~StartSameMtime(ops[i].file, StartRemoteEntry(ops[i].file).mtime)

\* a run that removed a transferred file and skipped another file
C4_Witness ==
    /\ IsGet
    /\ \E i \in 1..Len(ops) : ops[i].op = "remove" /\ ops[i].ok
    /\ files_skipped # <<>>

(***************************************************************************)
(* C5: pattern filter of sftp_get.  An entry of the listing the loop has   *)
(* dealt with is in remote_files if and only if its name matches the       *)
(* pattern; a name that does not match is in none of remote_files,         *)
(* processed and skipped, no remote operation names it, its local file is  *)
(* as it was and its remote entry is still there.                          *)
(***************************************************************************)
C5_PatternFilter ==
    IsGet =>
       /\ (pc \in {"loop", "done"}) =>
             \A i \in Visited :
                Fnmatch(directory_structure[i].filename, params.pattern)
                   <=> directory_structure[i].filename
                          \in Range(result.remote_files)
       /\ \A n \in Names :
             ~Fnmatch(n, params.pattern) =>
                /\ n \notin Range(result.remote_files)
                /\ n \notin Range(files_proc)
                /\ n \notin Range(files_skipped)
                /\ n \notin Processed(result) \cup Skipped(result)
                /\ \A i \in 1..Len(ops) : ops[i].file # n
                /\ local[n] = start.local[n]
                /\ StartRemoteHas(n) => RemoteHas(n)

\* a completed run with delete that transferred a file and whose listing
\* held an entry that does not match, with an outdated local file
C5_Witness ==
    /\ IsGet
    /\ pc = "done"
    /\ params.delete
    /\ Processed(result) # {}
    /\ \E i \in 1..Len(directory_structure) :
          LET n == directory_structure[i].filename IN
          /\ ~Fnmatch(n, params.pattern)
          /\ ~directory_structure[i].isdir
          /\ ~StartSameMtime(n, directory_structure[i].mtime)

(***************************************************************************)
(* C6: a run in check mode changes nothing.  At every point of a           *)
(* check-mode run of any of the three modules the local directory, the     *)
(* remote directory and the Archive directory are as they were when the    *)
(* run started, and no get, remove or rename has been issued.              *)
(***************************************************************************)
C6_DryRunNoMutation ==
    check_mode =>
       /\ local = start.local
       /\ remote = start.remote
       /\ archive = start.archive
       /\ \A i \in 1..Len(ops) : ops[i].op \notin {"get", "remove", "rename"}

\* a completed check-mode run of sftp_get with delete over a directory
\* that holds a file a real run would transfer
C6_Witness ==
    /\ check_mode
    /\ IsGet
    /\ params.delete
    /\ localPath = "dir"
    /\ pc = "done"
    /\ \E i \in 1..Len(remote) :
          /\ Fnmatch(remote[i].filename, params.pattern)
          /\ ~remote[i].isdir
          /\ ~UpToDate(remote[i].filename)

(***************************************************************************)
(* C7: dry-run decision equivalence.  When a check-mode run of sftp_get or *)
(* sftp_fetch has returned a result and the next run, not in check mode,   *)
(* starts from the same local and remote state and returns a result too,   *)
(* both results have the same changed flag and name the same files as      *)
(* processed and as skipped.                                               *)
(***************************************************************************)
C7_DryRunSameDecisions ==
    (/\ IsGet \/ IsFetch
     /\ prev.pc = "done"
     /\ prev.check_mode
     /\ prev.start = start
     /\ ~check_mode
     /\ pc = "done")
       => /\ prev.result.changed = result.changed
          /\ Processed(prev.result) = Processed(result)
          /\ Skipped(prev.result) = Skipped(result)

(***************************************************************************)
(* C8: archive failure is swallowed in sftp_fetch.  When a run with        *)
(* archive, not in check mode, has found that src (a regular remote file   *)
(* whose local path is not a directory) must be transferred, and the       *)
(* remote has no Archive directory, then the run ends normally, reports    *)
(* changed = true, the local file holds the remote bytes and mtime, and    *)
(* the remote file is still where it was.                                  *)
(***************************************************************************)
C8_ArchiveFailureSwallowed ==
    (/\ IsFetch
     /\ params.archive
     /\ ~check_mode
     /\ ~archive.exists
     /\ StartRemoteHas(params.src)
     /\ ~StartRemoteEntry(params.src).isdir
     /\ start.local[params.src].kind # "dir"
     /\ changed
     /\ pc \in Terminal)
       => /\ pc = "done"
          /\ result.changed
          /\ local[params.src] =
                [kind |-> "file",
                 mtime |-> [sec |-> StartRemoteEntry(params.src).mtime,
                            frac |-> FALSE],
                 bytes |-> RemoteBytes]
          /\ RemoteHas(params.src)

(***************************************************************************)
(* C9: a delete failure is not fatal in sftp_get.  When the last remote    *)
(* operation of a run is a remove that failed, the run has not aborted:    *)
(* it goes on with the loop or has returned its result, the file is in     *)
(* processed and changed is true.                                          *)
(***************************************************************************)
C9_DeleteFailureNotFatal ==
    (/\ IsGet
     /\ ops # <<>>
     /\ ops[Len(ops)].op = "remove"
     /\ ~ops[Len(ops)].ok)
       => /\ pc \in {"loop", "done"}
          /\ ops[Len(ops)].file \in Range(files_proc)
          /\ changed

(***************************************************************************)
(* C10: a transfer failure is isolated in sftp_get.  When the last remote  *)
(* operation of a run is a get that failed, the run has not aborted: it    *)
(* goes on with the loop or has returned its result; the file is not in    *)
(* processed and is still on the remote.                                   *)
(***************************************************************************)
C10_TransferFailureIsolated ==
    (/\ IsGet
     /\ ops # <<>>
     /\ ops[Len(ops)].op = "get"
     /\ ~ops[Len(ops)].ok)
       => /\ pc \in {"loop", "done"}
          /\ ops[Len(ops)].file \notin Range(files_proc)
          /\ RemoteHas(ops[Len(ops)].file)

(***************************************************************************)
(* C11: partial progress is reported by sftp_get.  When a run has ended    *)
(* on an error after it transferred at least one file, the result it       *)
(* leaves for the caller names the files transferred so far as processed,  *)
(* the files skipped so far as skipped, and has changed = true.            *)
(***************************************************************************)
C11_PartialProgressReported ==
    (/\ IsGet
     /\ pc \in {"failed", "crashed"}
     /\ files_proc # <<>>)
       => /\ result.changed
          /\ Processed(result) = Range(files_proc)
          /\ Skipped(result) = Range(files_skipped)

(***************************************************************************)
(* C12: pre-flight check of the local destination.  In every run of        *)
(* sftp_get or sftp_fetch, in check mode or not, whose local_path is not   *)
(* a readable directory, no session is opened, no remote operation is      *)
(* issued, the local and remote state stay as they were, and the run does  *)
(* not end with a success result.                                          *)
(***************************************************************************)
C12_PreflightLocalPath ==
    (/\ IsGet \/ IsFetch
     /\ localPath # "dir")
       => /\ session = "none"
          /\ opened = 0
          /\ ops = <<>>
          /\ local = start.local
          /\ remote = start.remote
          /\ archive = start.archive
          /\ pc # "done"

(***************************************************************************)
(* C13: directories of the remote listing are left out by sftp_get.  An    *)
(* entry of the listing that is a directory is in neither processed nor    *)
(* skipped, no stat, get or remove names it, and the run does not end on   *)
(* an error in the iteration that deals with it.                           *)
(***************************************************************************)
C13_DirectoriesExcluded ==
    IsGet =>
       \A i \in 1..Len(directory_structure) :
          LET file == directory_structure[i] IN
          file.isdir =>
             /\ file.filename \notin Range(files_proc)
             /\ file.filename \notin Range(files_skipped)
             /\ \A j \in 1..Len(ops) : ops[j].file # file.filename
             /\ ~(pc = "crashed" /\ idx = i)

(***************************************************************************)
(* C14: session scope.  A run of any of the three modules opens at most    *)
(* one session, a run that issues remote operations has opened exactly     *)
(* one, and every remote operation of the run is issued while that         *)
(* session is open.                                                        *)
(***************************************************************************)
C14_SessionScope ==
    /\ opened <= 1
    /\ ops # <<>> => opened = 1
    /\ \A i \in 1..Len(ops) : ops[i].live

(***************************************************************************)
(* C15: session release.  When a run that opened a session has ended, by   *)
(* exit_json, by fail_json or by an exception raised in the iteration,     *)
(* the session is closed.                                                  *)
(***************************************************************************)
C15_SessionReleased ==
    (pc \in Terminal /\ opened > 0) => session = "closed"

\* a run of sftp_get that ended on an exception of sftp.get or sftp.remove
\* after it had transferred or skipped a file
C15_Witness ==
    /\ IsGet
    /\ pc = "crashed"
    /\ opened = 1
    /\ ops # <<>>
    /\ ops[Len(ops)].op \in {"get", "remove"}
    /\ ~ops[Len(ops)].ok
    /\ files_proc # <<>> \/ files_skipped # <<>>

\* the names of the entries of a listing that match the pattern, in the
\* order of the listing
MatchingNames(listing) ==
    LET sel == SelectSeq(listing,
                         LAMBDA e : Fnmatch(e.filename, params.pattern))
    IN [i \in 1..Len(sel) |-> sel[i].filename]

(***************************************************************************)
(* C16: sftp_find, not in check mode, is read-only and exact.  The run     *)
(* issues no get, remove or rename and leaves the local and the remote     *)
(* state as they were; the files_found it returns is the sequence of the   *)
(* names of the remote entries that match the pattern, in listing order,   *)
(* each once; when the remote path is missing or is a file the run does    *)
(* not return a result.                                                    *)
(***************************************************************************)
C16_FindReadOnlyExact ==
    (IsFind /\ ~check_mode) =>
       /\ local = start.local
       /\ remote = start.remote
       /\ archive = start.archive
       /\ \A i \in 1..Len(ops) : ops[i].op \notin {"get", "remove", "rename"}
       /\ pc = "done" => result.files_found = MatchingNames(remote)
       /\ remotePath # "dir" => pc # "done"

\* a completed run over a directory with a matching entry and, before it
\* in the listing, an entry that does not match
C16_Witness ==
    /\ IsFind
    /\ ~check_mode
    /\ pc = "done"
    /\ Len(remote) = 2
    /\ ~Fnmatch(remote[1].filename, params.pattern)
    /\ result.files_found = <<remote[2].filename>>

(***************************************************************************)
(* C17: no partial file on an interrupted transfer.  When a get of         *)
(* sftp_get or sftp_fetch has failed, the local path of the file is as it  *)
(* was when the run started: the same content and mtime if a file was      *)
(* there, and still nothing if there was none.                             *)
(***************************************************************************)
C17_NoPartialFile ==
    (IsGet \/ IsFetch) =>
       \A i \in 1..Len(ops) :
          (ops[i].op = "get" /\ ~ops[i].ok)
             => local[ops[i].file] = start.local[ops[i].file]

(***************************************************************************)
(* C18: timestamp alignment.  When a run of sftp_get without delete, or a  *)
(* run of sftp_fetch not in check mode, has returned its result, every     *)
(* file the result reports as transferred is a regular local file with     *)
(* the remote content whose mtime equals the mtime its remote source had,  *)
(* so that the skip condition holds for it.                                *)
(***************************************************************************)
C18_TimestampAligned ==
    /\ (IsGet /\ ~params.delete /\ pc = "done") =>
          \A n \in Processed(result) :
             /\ local[n].kind = "file"
             /\ local[n].bytes = RemoteBytes
             /\ MtimeEqual(StartRemoteEntry(n).mtime, local[n].mtime)
             /\ UpToDate(n)
    /\ (IsFetch /\ ~check_mode /\ pc = "done" /\ result.changed) =>
          /\ local[params.src].kind = "file"
          /\ local[params.src].bytes = RemoteBytes
          /\ MtimeEqual(StartRemoteEntry(params.src).mtime,
                        local[params.src].mtime)

\* a completed run of sftp_get without delete that overwrote a local file
\* whose mtime was in the same second as the remote one but not equal
C18_Witness ==
    /\ IsGet
    /\ ~params.delete
    /\ pc = "done"
    /\ \E n \in Processed(result) :
          /\ start.local[n].kind = "file"
          /\ start.local[n].mtime.frac
          /\ start.local[n].mtime.sec = StartRemoteEntry(n).mtime

NoDuplicates(s) == \A i, j \in 1..Len(s) : i # j => s[i] # s[j]

IsPrefix(s, t) == Len(s) <= Len(t) /\ SubSeq(t, 1, Len(s)) = s

\* the lists of a run of sftp_get at any of its points, and its result
C19_Lists ==
    IsGet =>
       /\ NoDuplicates(files_proc)
       /\ NoDuplicates(files_skipped)
       /\ Range(files_proc) \cap Range(files_skipped) = {}
       /\ pc = "done" =>
             /\ \A i \in 1..Len(directory_structure) :
                   LET n == directory_structure[i].filename IN
                   Fnmatch(n, params.pattern) =>
                      (n \in Processed(result)) # (n \in Skipped(result))
             /\ Processed(result) \cap Skipped(result) = {}
             /\ result.remote_files = MatchingNames(directory_structure)
             /\ Range(result.remote_files)
                   = Processed(result) \cup Skipped(result)
             /\ ~check_mode =>
                   /\ result.processed = files_proc
                   /\ result.skipped = files_skipped
                   /\ result.processed_count = Len(result.processed)

\* a step of a run of sftp_get only appends to the two lists
C19_Step ==
    (IsGet /\ run' = run) =>
       /\ IsPrefix(files_proc, files_proc')
       /\ IsPrefix(files_skipped, files_skipped')

(***************************************************************************)
(* C19: exactly-once classification in sftp_get.  At every point of a run  *)
(* processed and skipped have no duplicates and share no file, and a step  *)
(* of the run only appends to them; in the result of a completed run       *)
(* every entry of the run's listing that matches the pattern is in         *)
(* exactly one of processed and skipped, remote_files is the matching      *)
(* names in listing order and holds the same files as the two lists, and   *)
(* processed_count is the length of processed.                             *)
(***************************************************************************)
C19_ExactlyOnce == [][C19_Step]_vars /\ []C19_Lists

\* a completed run with delete over two matching entries, one transferred
\* and one skipped
C19_Witness ==
    /\ IsGet
    /\ params.delete
    /\ pc = "done"
    /\ Len(directory_structure) = 2
    /\ Len(result.processed) = 1
    /\ Len(result.skipped) = 1

\* the previous run was not in check mode, returned its result, and every
\* get, remove and rename it issued succeeded
PrevAllSucceeded ==
    /\ prev.pc = "done"
    /\ ~prev.check_mode
    /\ \A i \in 1..Len(prev.ops) : prev.ops[i].ok

\* this run follows, with the same parameters, a run of sftp_get with
\* delete, or a run of sftp_fetch with archive that transferred and
\* renamed src
C20_Rerun ==
    /\ ~check_mode
    /\ PrevAllSucceeded
    /\ \/ IsGet /\ params.delete
       \/ /\ IsFetch
          /\ params.archive
          /\ \E i \in 1..Len(prev.ops) : prev.ops[i].op = "rename"

(***************************************************************************)
(* C20: the post-action does not break a rerun.  A run that follows a run  *)
(* of sftp_get with delete in which every transfer and delete succeeded,   *)
(* or a run of sftp_fetch with archive in which the transfer and the       *)
(* rename succeeded, issues no get, remove or rename, does not end on an   *)
(* error once it is connected, and reports changed = false with nothing    *)
(* transferred.                                                            *)
(***************************************************************************)
C20_RerunAfterPostAction ==
    C20_Rerun =>
       /\ \A i \in 1..Len(ops) : ops[i].op \notin {"get", "remove", "rename"}
       /\ local = start.local
       /\ remote = start.remote
       /\ pc # "failed"
       /\ pc = "crashed" => opened = 0
       /\ pc = "done" =>
             /\ ~result.changed
             /\ Processed(result) = {}

\* a completed rerun of sftp_get with delete, after a run that transferred
\* and removed one file and skipped another, which the rerun skips again
C20_Witness ==
    /\ C20_Rerun
    /\ IsGet
    /\ pc = "done"
    /\ \E i \in 1..Len(prev.ops) : prev.ops[i].op = "remove"
    /\ Len(prev.result.skipped) = 1
    /\ result.skipped = prev.result.skipped

=============================================================================
